---- MODULE Spec2Model ----
(***************************************************************************)
(* Model of pylearn2/train_extensions/twitter_monitoring.py:               *)
(*   TwitterManager     tweet_status, _tweet_status_msg, tweet_image,      *)
(*                      _chunk_string                                      *)
(*   TwitterMonitoring  tweet_channel, on_monitor                          *)
(* A string is a sequence of one-character strings.  The transport         *)
(* (TwitterAPI.request) is the environment: every request either raises or *)
(* returns a response with a status code, chosen nondeterministically.     *)
(***************************************************************************)
EXTENDS Integers, Sequences, FiniteSets, TLC

VARIABLES
    pc,                 \* position of the running call
    caller,             \* "direct": tweet_status called by a client; "monitor": on_monitor cycle
    os_name,            \* platform: decides what TemporaryFile().name is
    host_name,          \* TwitterMonitoring.host_name
    job_name,           \* TwitterMonitoring.job_name
    channels_info,      \* TwitterMonitoring.channels_info (list of subscriptions)
    channels,           \* monitor.channels: name -> channel record
    idx,                \* on_monitor: index of the ch_info being processed (1-based)
    visited,            \* indices of the subscriptions tweet_channel was entered for
    status_msg,         \* tweet_status: its argument
    status_msg_chunks,  \* tweet_status: the chunks, markers attached
    results,            \* tweet_status: the list it builds and returns
    requests,           \* every twitter_api.request made, in order, with its outcome
    log,                \* what was written to the logger
    files,              \* image files on disk
    open_files,         \* image files this process holds open
    exc                 \* the exception propagating out of the call, if any

vars == << pc, caller, os_name, host_name, job_name, channels_info, channels, idx,
           visited, status_msg, status_msg_chunks, results, requests, log, files,
           open_files, exc >>

----------------------------------------------------------------------------
(* Bounds of the model *)

\* longest message handed directly to tweet_status
MaxMsgLen == 270
\* most subscriptions in channels_info
MaxSubs == 2
\* largest latest epoch of a monitor channel
MaxEpoch == 2
\* largest epoch_frequency of a subscription
MaxFreq == 2
\* a job name is empty or MaxJobLen characters long
MaxJobLen == 126

----------------------------------------------------------------------------
(* Program constants *)

STATUS_MSG_MAX_LEN == 140

continuation_string == << " ", "[", ".", ".", ".", "]", " " >>

NoExc == [type |-> "none", where |-> "none"]

----------------------------------------------------------------------------
(* Strings *)

Min(a, b) == IF a < b THEN a ELSE b

Str_newline == << "\n" >>

DigitChars == << "0", "1", "2", "3", "4", "5", "6", "7", "8", "9" >>

\* "%d" % n, n a natural number
RECURSIVE FormatInt(_)
FormatInt(n) ==
    IF n < 10 THEN << DigitChars[n + 1] >>
    ELSE FormatInt(n \div 10) \o << DigitChars[(n % 10) + 1] >>

\* "%f" % float(n), n a natural number: six decimals
FormatFloat(n) == FormatInt(n) \o << ".", "0", "0", "0", "0", "0", "0" >>

TwoDigits(n) == << DigitChars[(n \div 10) + 1], DigitChars[(n % 10) + 1] >>

\* str(datetime.timedelta(seconds=s)), s a natural number below one day: H:MM:SS
FormatTimedelta(s) ==
    FormatInt(s \div 3600) \o << ":" >> \o TwoDigits((s \div 60) % 60)
        \o << ":" >> \o TwoDigits(s % 60)

\* min(val_record)
MinOf(rec) == CHOOSE v \in { rec[i] : i \in DOMAIN rec } :
                  \A i \in DOMAIN rec : v <= rec[i]

\* numpy.argmin(val_record): 0-based index of the first minimum
ArgMin(rec) == (CHOOSE i \in DOMAIN rec :
                   /\ rec[i] = MinOf(rec)
                   /\ \A j \in DOMAIN rec : rec[j] = MinOf(rec) => i <= j) - 1

\* rec[-1]
Last(rec) == rec[Len(rec)]

----------------------------------------------------------------------------
(* TwitterManager: the pure part of tweet_status *)

\* mutant of ChunkLength: no room reserved for the markers
ChunkLength_NoReserve == STATUS_MSG_MAX_LEN

\* the length handed to _chunk_string: room for a marker on both sides
ChunkLength == STATUS_MSG_MAX_LEN - 2 * Len(continuation_string)

\* len(range(0, n, length))
RangeCount(n, length) == (n + length - 1) \div length

\* mutant of chunk_string: the slice ends one character early
chunk_string_ShortSlice(string, length) ==
    [ k \in 1..RangeCount(Len(string), length) |->
        SubSeq(string, (k - 1) * length + 1, Min(k * length, Len(string)) - 1) ]

\* _chunk_string: string[0+i:length+i] for i in range(0, len(string), length)
chunk_string(string, length) ==
    [ k \in 1..RangeCount(Len(string), length) |->
        SubSeq(string, (k - 1) * length + 1, Min(k * length, Len(string))) ]

\* the loop of tweet_status that adds the continuation string to the chunks
AttachMarkers(chunks) ==
    IF Len(chunks) > 1
    THEN [ k \in 1..Len(chunks) |->
             IF k = 1 THEN chunks[k] \o continuation_string
             ELSE IF k = Len(chunks) THEN continuation_string \o chunks[k]
             ELSE continuation_string \o chunks[k] \o continuation_string ]
    ELSE chunks

\* mutant of PostOrder: the chunks are posted front to back
PostOrder_Forward(chunks) == chunks

\* status_msg_chunks[::-1]
PostOrder(chunks) == [ k \in 1..Len(chunks) |-> chunks[Len(chunks) + 1 - k] ]

----------------------------------------------------------------------------
(* TwitterMonitoring: the pure part of tweet_channel *)

\* mutant of Due: the cadence test is skipped
Due_Always(ch, epoch_freq) == TRUE

\* ch.epoch_record[-1] % epoch_freq == 0
Due(ch, epoch_freq) == Last(ch.epoch_record) % epoch_freq = 0

\* the status message of a channel
ComposeStatus(host, job, name, ch) ==
    host \o Str_newline
    \o job \o Str_newline
    \o << "E", ":" >> \o FormatInt(Last(ch.epoch_record))
    \o << ",", " ", "T", ":" >> \o FormatTimedelta(Last(ch.time_record)) \o Str_newline
    \o name \o << ":", " " >> \o FormatFloat(Last(ch.val_record)) \o Str_newline
    \o << "m", "i", "n", ":", " " >> \o FormatFloat(MinOf(ch.val_record))
    \o << " ", "[" >> \o FormatInt(ArgMin(ch.val_record)) \o << "]" >>


----------------------------------------------------------------------------
(* The transport: outcomes of twitter_api.request *)

StatusCodes == { 200, 403 }

\* a request raises, or returns a response with a status code
StatusOutcomes ==
    { [raised |-> TRUE, status_code |-> 0, media_id_ok |-> FALSE] }
    \cup { [raised |-> FALSE, status_code |-> c, media_id_ok |-> FALSE] : c \in StatusCodes }

\* the body of a response to media/upload may or may not carry a parsable 'media_id'
UploadOutcomes ==
    { [raised |-> TRUE, status_code |-> 0, media_id_ok |-> FALSE] }
    \cup [ raised : { FALSE }, status_code : StatusCodes, media_id_ok : BOOLEAN ]

\* what _tweet_status_msg returns: None after an exception, the response otherwise
StatusMsgResult(o) ==
    IF o.raised THEN [is_none |-> TRUE, status_code |-> 0]
    ELSE [is_none |-> FALSE, status_code |-> o.status_code]

\* mutant of StatusRequestCaught: the exception of the request is not caught
StatusRequestCaught_Never(o) == FALSE

\* _tweet_status_msg: try/except Exception around the request
StatusRequestCaught(o) == TRUE

\* tweet_image: try/except Exception around the upload request
UploadRequestCaught(o) == TRUE

\* mutant of UploadAccepted: the status code of the upload is not looked at
UploadAccepted_Always(o) == TRUE

\* tweet_image: the else branch of "if r.status_code != 200"
UploadAccepted(o) == o.status_code = 200

\* tweet_image: r.json()['media_id'], outside of any try
MediaIdRaises(o) == ~o.media_id_ok

Request(endpoint, status, media, o) ==
    [ endpoint |-> endpoint, status |-> status, media |-> media,
      sub |-> idx, outcome |-> o ]

----------------------------------------------------------------------------
(* Inputs *)

Alphabet == << "a", "b", "c", "\n", " " >>

\* a message of n characters cycling through str
Cycle(str, n) == [ i \in 1..n |-> str[((i - 1) % Len(str)) + 1] ]

\* messages handed directly to tweet_status: every length, plain text and
\* text made of the continuation string itself
Messages ==
    { Cycle(Alphabet, n) : n \in 0..MaxMsgLen }
    \cup { Cycle(continuation_string, n) : n \in 0..MaxMsgLen }

HostName == << "h", "_", "1" >>

JobNames == { Cycle(Alphabet, n) : n \in { 0, MaxJobLen } }

KnownChannel == << "n", "l", "l" >>

UnknownChannel == << "a", "c", "c" >>

\* the monitor's channel after the epochs 0..e: three parallel records
ChannelAfter(e) ==
    [ epoch_record |-> [ i \in 1..(e + 1) |-> i - 1 ],
      time_record  |-> [ i \in 1..(e + 1) |-> 3725 * (i - 1) ],
      val_record   |-> [ i \in 1..(e + 1) |-> IF i < 2 THEN 5 - i ELSE i + 1 ] ]

Subscriptions ==
    [ name : { KnownChannel, UnknownChannel },
      epoch_frequency : 1..MaxFreq,
      type : { "text", "plot" } ]

SubscriptionLists ==
    UNION { [ 1..n -> Subscriptions ] : n \in 0..MaxSubs }

----------------------------------------------------------------------------
(* State after construction *)

Init ==
    /\ pc = "idle"
    /\ caller \in { "direct", "monitor" }
    /\ host_name = HostName
    /\ IF caller = "direct"
       THEN /\ os_name = "posix"
            /\ job_name = << >>
            /\ channels_info = << >>
            /\ channels = [ n \in { KnownChannel } |-> ChannelAfter(0) ]
       ELSE /\ os_name \in { "posix", "nt" }
            /\ job_name \in JobNames
            /\ channels_info \in SubscriptionLists
            /\ \E e \in 0..MaxEpoch :
                   channels = [ n \in { KnownChannel } |-> ChannelAfter(e) ]
    /\ idx = 0
    /\ visited = { }
    /\ status_msg = << >>
    /\ status_msg_chunks = << >>
    /\ results = << >>
    /\ requests = << >>
    /\ log = << >>
    /\ files = { }
    /\ open_files = { }
    /\ exc = NoExc

----------------------------------------------------------------------------
(* Operations *)

\* the running call returns: a direct tweet_status call to its client,
\* tweet_channel to the loop of on_monitor
EndCall ==
    IF caller = "direct" THEN pc' = "returned" /\ idx' = idx
    ELSE IF idx < Len(channels_info) THEN pc' = "tweet_channel" /\ idx' = idx + 1
    ELSE pc' = "done" /\ idx' = idx

\* an exception leaves the call
Raise(type, where) ==
    /\ exc' = [ type |-> type, where |-> where ]
    /\ pc' = "raised"
    /\ idx' = idx

\* tweet_status up to its first request: split, attach the markers
BeginTweetStatus(msg) ==
    LET chunks == AttachMarkers(chunk_string(msg, ChunkLength))
    IN  /\ status_msg' = msg
        /\ status_msg_chunks' = chunks
        /\ results' = << >>
        /\ IF Len(chunks) = 0 THEN EndCall ELSE pc' = "posting" /\ idx' = idx

\* a client calls tweet_status(status_msg)
TweetStatus ==
    /\ pc = "idle"
    /\ caller = "direct"
    /\ \E msg \in Messages : BeginTweetStatus(msg)
    /\ UNCHANGED << caller, os_name, host_name, job_name, channels_info, channels,
                    visited, requests, log, files, open_files, exc >>

\* one _tweet_status_msg call of the list comprehension of tweet_status
TweetStatusMsg ==
    /\ pc = "posting"
    /\ Len(results) < Len(status_msg_chunks)
    /\ LET k == Len(results) + 1
           msg == PostOrder(status_msg_chunks)[k]
       IN  \E o \in StatusOutcomes :
             /\ requests' = Append(requests, Request("statuses/update", msg, FALSE, o))
             /\ IF o.raised /\ ~StatusRequestCaught(o)
                THEN /\ Raise("TransportError", "_tweet_status_msg")
                     /\ UNCHANGED << results, log >>
                ELSE /\ results' = Append(results, StatusMsgResult(o))
                     /\ log' = IF o.raised THEN Append(log, "exception")
                               ELSE IF o.status_code # 200
                                    THEN Append(log, "Error while trying to tweet message")
                                    ELSE log
                     /\ exc' = exc
                     /\ IF k = Len(status_msg_chunks) THEN EndCall
                        ELSE pc' = pc /\ idx' = idx
    /\ UNCHANGED << caller, os_name, host_name, job_name, channels_info, channels,
                    visited, status_msg, status_msg_chunks, files, open_files >>

\* tweet_channel after tweet_image returned: close the image file and remove it;
\* FileNotFoundError is passed over
RemoveImage ==
    /\ open_files' = open_files \ { idx }
    /\ files' = files \ { idx }

\* the training loop calls on_monitor
OnMonitor ==
    /\ pc = "idle"
    /\ caller = "monitor"
    /\ IF Len(channels_info) = 0 THEN pc' = "done" /\ idx' = idx
       ELSE pc' = "tweet_channel" /\ idx' = 1
    /\ UNCHANGED << caller, os_name, host_name, job_name, channels_info, channels,
                    visited, status_msg, status_msg_chunks, results, requests, log,
                    files, open_files, exc >>

\* tweet_channel(monitor, channels_info[idx]) up to its first request
TweetChannel ==
    /\ pc = "tweet_channel"
    /\ visited' = visited \cup { idx }
    /\ LET ch_info == channels_info[idx]
           name == ch_info.name
       IN  IF name \notin DOMAIN channels
           THEN \* monitor.channels[name]
                /\ Raise("KeyError", "tweet_channel")
                /\ UNCHANGED << status_msg, status_msg_chunks, results, files, open_files >>
           ELSE LET ch == channels[name] IN
                IF ~Due(ch, ch_info.epoch_frequency)
                THEN /\ EndCall
                     /\ UNCHANGED << status_msg, status_msg_chunks, results, files,
                                     open_files, exc >>
                ELSE IF ch_info.type = "text"
                THEN /\ BeginTweetStatus(ComposeStatus(host_name, job_name, name, ch))
                     /\ UNCHANGED << files, open_files, exc >>
                ELSE IF ch_info.type = "plot"
                THEN IF Len(ch.val_record) < 2
                     THEN \* numpy.argmin(ch.val_record[1:]) of an empty sequence
                          /\ Raise("ValueError", "tweet_channel")
                          /\ UNCHANGED << status_msg, status_msg_chunks, results, files,
                                          open_files >>
                     ELSE IF os_name = "posix"
                     THEN \* tf.name is the integer file descriptor: tf.name + '.png'
                          /\ Raise("TypeError", "tweet_channel")
                          /\ UNCHANGED << status_msg, status_msg_chunks, results, files,
                                          open_files >>
                     ELSE \* fig.savefig(image_filename), open(image_filename, 'rb')
                          /\ files' = files \cup { idx }
                          /\ open_files' = open_files \cup { idx }
                          /\ pc' = "upload"
                          /\ UNCHANGED << idx, status_msg, status_msg_chunks, results,
                                          exc >>
                ELSE /\ EndCall
                     /\ UNCHANGED << status_msg, status_msg_chunks, results, files,
                                     open_files, exc >>
    /\ UNCHANGED << caller, os_name, host_name, job_name, channels_info, channels,
                    requests, log >>

\* tweet_image: the media/upload request and what follows it up to the next request
MediaUpload ==
    /\ pc = "upload"
    /\ \E o \in UploadOutcomes :
         /\ requests' = Append(requests, Request("media/upload", << >>, TRUE, o))
         /\ IF o.raised
            THEN IF UploadRequestCaught(o)
                 THEN /\ log' = Append(log, "exception")
                      /\ RemoveImage /\ EndCall /\ exc' = exc
                 ELSE /\ Raise("TransportError", "tweet_image")
                      /\ UNCHANGED << log, files, open_files >>
            ELSE IF ~UploadAccepted(o)
                 THEN /\ log' = Append(log, "Error while trying to upload image")
                      /\ RemoveImage /\ EndCall /\ exc' = exc
                 ELSE IF MediaIdRaises(o)
                      THEN /\ Raise("KeyError", "tweet_image")
                           /\ UNCHANGED << log, files, open_files >>
                      ELSE /\ pc' = "media_post"
                           /\ UNCHANGED << idx, log, files, open_files, exc >>
    /\ UNCHANGED << caller, os_name, host_name, job_name, channels_info, channels,
                    visited, status_msg, status_msg_chunks, results >>

\* tweet_image: the statuses/update request that references the uploaded media,
\* then the return to tweet_channel
MediaPost ==
    /\ pc = "media_post"
    /\ \E o \in StatusOutcomes :
         /\ requests' = Append(requests, Request("statuses/update", << >>, TRUE, o))
         /\ log' = IF o.raised THEN Append(log, "exception")
                   ELSE IF o.status_code # 200
                        THEN Append(log, "Error while trying to post plot image")
                        ELSE log
         /\ RemoveImage /\ EndCall
    /\ UNCHANGED << caller, os_name, host_name, job_name, channels_info, channels,
                    visited, status_msg, status_msg_chunks, results, exc >>

\* something else removes the image file while tweet_image is waiting for the
\* transport (the case the except FileNotFoundError of tweet_channel is for)
ExternalRemove ==
    /\ pc \in { "upload", "media_post" }
    /\ idx \in files
    /\ files' = files \ { idx }
    /\ UNCHANGED << pc, caller, os_name, host_name, job_name, channels_info, channels,
                    idx, visited, status_msg, status_msg_chunks, results, requests, log,
                    open_files, exc >>

Next ==
    \/ TweetStatus
    \/ TweetStatusMsg
    \/ OnMonitor
    \/ TweetChannel
    \/ MediaUpload
    \/ MediaPost
    \/ ExternalRemove

Spec == Init /\ [][Next]_vars


----------------------------------------------------------------------------
(* Properties *)

\* the requests tweet_status made for subscription i (0: a direct call)
StatusRequestsOf(i) ==
    SelectSeq(requests, LAMBDA r : r.sub = i /\ r.endpoint = "statuses/update" /\ ~r.media)

Failed(o) == o.raised \/ o.status_code # 200

Unknown(i) == channels_info[i].name \notin DOMAIN channels

\* tweet_channel has ended for subscription i, by return or by exception
Ended(i) == i \in visited /\ (i < idx \/ pc \in { "done", "raised" })

\* C1: every chunk tweet_status hands to the transport, continuation marker
\* included, is at most STATUS_MSG_MAX_LEN (140) characters long
C1_ChunkWithinMaxLen ==
    \A k \in 1..Len(requests) :
        (requests[k].endpoint = "statuses/update" /\ ~requests[k].media)
            => Len(requests[k].status) <= STATUS_MSG_MAX_LEN

\* an interior chunk of a long message, 140 characters with both markers, was posted
C1_Witness ==
    /\ Len(status_msg) > 2 * ChunkLength
    /\ \E k \in 1..Len(requests) :
           /\ ~requests[k].media
           /\ Len(requests[k].status) = STATUS_MSG_MAX_LEN
           /\ requests[k].status = status_msg_chunks[2]

\* C2: a message of at most 140 characters (the empty one and the lengths
\* 127..140 included) gives exactly one chunk, the message itself without a
\* marker, and exactly one post
C2_ShortMessageOneChunk ==
    (caller = "direct" /\ pc \in { "posting", "returned" }
        /\ Len(status_msg) <= STATUS_MSG_MAX_LEN)
    => /\ status_msg_chunks = << status_msg >>
       /\ pc = "returned" => Len(requests) = 1

RECURSIVE Concat(_)
Concat(seqs) == IF seqs = << >> THEN << >> ELSE Head(seqs) \o Concat(Tail(seqs))

LeadingMarker(chunks, k) == Len(chunks) > 1 /\ k > 1

TrailingMarker(chunks, k) == Len(chunks) > 1 /\ k < Len(chunks)

\* the continuation markers are where tweet_status attaches them
MarkersAttached(chunks) ==
    \A k \in 1..Len(chunks) :
        LET c == chunks[k] m == Len(continuation_string)
            need == (IF LeadingMarker(chunks, k) THEN m ELSE 0)
                    + (IF TrailingMarker(chunks, k) THEN m ELSE 0)
        IN  /\ Len(c) >= need
            /\ LeadingMarker(chunks, k) => SubSeq(c, 1, m) = continuation_string
            /\ TrailingMarker(chunks, k)
                   => SubSeq(c, Len(c) - m + 1, Len(c)) = continuation_string

\* the chunks without the attached markers
StripMarkers(chunks) ==
    [ k \in 1..Len(chunks) |->
        LET c == chunks[k] m == Len(continuation_string)
        IN  SubSeq(c, IF LeadingMarker(chunks, k) THEN m + 1 ELSE 1,
                      IF TrailingMarker(chunks, k) THEN Len(c) - m ELSE Len(c)) ]

\* C3: the chunks of tweet_status, stripped of the attached continuation markers
\* and concatenated front to back, are the message: nothing lost, doubled or moved
C3_ChunksReproduceMessage ==
    (pc \in { "posting", "returned" })
    => /\ MarkersAttached(status_msg_chunks)
       /\ Concat(StripMarkers(status_msg_chunks)) = status_msg

\* a message of three chunks, itself made of continuation strings, was split
C3_Witness ==
    /\ pc = "returned"
    /\ Len(status_msg_chunks) = 3
    /\ Len(status_msg) > 2 * ChunkLength
    /\ SubSeq(status_msg, 1, Len(continuation_string)) = continuation_string

\* C4: tweet_status makes one request per chunk, last chunk first and first chunk
\* last, and its result list has one entry per chunk in the order of the requests
C4_PostsReversedOnePerChunk ==
    (pc \in { "posting", "returned" })
    => LET reqs == StatusRequestsOf(idx)
           n == Len(status_msg_chunks)
       IN  /\ Len(reqs) = Len(results)
           /\ Len(reqs) <= n
           /\ \A k \in 1..Len(reqs) :
                  /\ reqs[k].status = status_msg_chunks[n + 1 - k]
                  /\ results[k].is_none = reqs[k].outcome.raised
                  /\ ~reqs[k].outcome.raised
                         => results[k].status_code = reqs[k].outcome.status_code
           /\ pc = "returned" => Len(reqs) = n

\* a direct call with three different chunks has returned
C4_Witness ==
    /\ pc = "returned"
    /\ Len(status_msg_chunks) = 3
    /\ Len(requests) = 3
    /\ requests[1].status = status_msg_chunks[3]
    /\ requests[3].status = status_msg_chunks[1]
    /\ status_msg_chunks[1] # status_msg_chunks[3]

\* C5: in a tweet_status call a failed request (the transport raises, or answers
\* with a status other than 200) does not stop the requests for the remaining
\* chunks, and the call returns normally
C5_FailureDoesNotStopPosting ==
    [][ (pc = "posting" /\ Len(requests') = Len(requests) + 1
            /\ Failed(requests'[Len(requests')].outcome))
        => /\ exc' = NoExc
           /\ Len(results') = Len(results) + 1
           /\ IF Len(results') < Len(status_msg_chunks)
              THEN pc' = "posting"
              ELSE pc' \in { "returned", "tweet_channel", "done" } ]_vars

\* all three chunks were attempted although the first two requests failed
C5_Witness ==
    /\ pc = "returned"
    /\ Len(status_msg_chunks) = 3
    /\ Len(requests) = 3
    /\ requests[1].outcome.raised
    /\ ~requests[2].outcome.raised /\ requests[2].outcome.status_code # 200

\* C6: a subscription that names a channel the monitor does not have fails alone:
\* no exception reaches the training loop and every later subscription is processed
C6_UnknownChannelIsolated ==
    \A i \in visited :
        Unknown(i)
        => /\ exc = NoExc
           /\ pc \in { "done", "raised" }
                  => \A j \in 1..Len(channels_info) : j > i => j \in visited

\* C7: a subscription whose channel's latest epoch is not divisible by its
\* epoch_frequency causes no request at all
C7_NotDueNoRequest ==
    caller = "monitor"
    => \A k \in 1..Len(requests) :
           LET ch_info == channels_info[requests[k].sub]
           IN  /\ ch_info.name \in DOMAIN channels
               /\ LET rec == channels[ch_info.name].epoch_record
                  IN  rec[Len(rec)] % ch_info.epoch_frequency = 0

\* a cycle ended in which one subscription was not due and another made requests
C7_Witness ==
    /\ pc = "done"
    /\ Len(requests) > 0
    /\ \E i \in visited :
           /\ ~Unknown(i)
           /\ LET rec == channels[channels_info[i].name].epoch_record
              IN  rec[Len(rec)] % channels_info[i].epoch_frequency # 0

\* C8: in tweet_image the statuses/update request that references the media comes
\* only after an upload that returned 200; after an upload that raised or returned
\* another status it is never made
C8_NoMediaPostAfterFailedUpload ==
    /\ \A k \in 1..Len(requests) :
           (requests[k].endpoint = "statuses/update" /\ requests[k].media)
           => /\ k > 1
              /\ requests[k - 1].endpoint = "media/upload"
              /\ requests[k - 1].sub = requests[k].sub
              /\ ~Failed(requests[k - 1].outcome)
    /\ pc = "media_post" => ~Failed(requests[Len(requests)].outcome)

\* an upload failed and the cycle went on to a later subscription's requests
C8_Witness ==
    \E k \in 1..Len(requests) :
        /\ requests[k].endpoint = "media/upload"
        /\ Failed(requests[k].outcome)
        /\ k < Len(requests)
        /\ requests[k + 1].sub > requests[k].sub

\* C9: every failure of the transport in tweet_status or tweet_image (a bad status
\* code, an exception of the request, an upload response without a parsable
\* 'media_id') is caught in TwitterManager and logged; none propagates
C9_TransportFailuresContained ==
    exc.where \notin { "_tweet_status_msg", "tweet_image" }

\* C10: when tweet_channel has ended for a plot subscription, by return or by
\* exception, the image file it created is closed and removed
C10_ImageFileRemoved ==
    \A i \in visited : Ended(i) => i \notin files /\ i \notin open_files


====
